---- MODULE Spec2Model ----
(***************************************************************************)
(* Data-access gateway (app/db/mongo.py) and response schema               *)
(* (app/models/schemas.py) of the water-quality analysis service.          *)
(*                                                                         *)
(* A document is a function from field names to values; a collection is    *)
(* the sequence of its documents in natural (insertion) order.  The store  *)
(* operations insert_one / find_one / update_one($set) / delete_one /      *)
(* find.sort.skip.limit are modelled by the operators Store*, and every    *)
(* gateway method by one action that performs its whole body.              *)
(***************************************************************************)
EXTENDS Integers, Sequences, FiniteSets, TLC

VARIABLES
    client,                \* MongoDB.client : None or a client handle
    db,                    \* MongoDB.db     : None or a database handle
    started,               \* some connect() call has returned normally
    indexes,               \* indexes existing in the store
    water_reports,         \* collection db.water_reports
    parameter_standards,   \* collection db.parameter_standards
    calculation_formulas,  \* collection db.calculation_formulas
    now,                   \* last value read from datetime.utcnow()
    call,                  \* most recent gateway call: operation and key argument
    ret,                   \* its outcome: [raised, value]
    logged,                \* log records it emitted
    pc,                    \* position of each concurrent update_water_report caller
    stamped,               \* update mapping each such caller has stamped
    applied,               \* order in which those callers reached the store
    before,                \* water_reports when the concurrent callers began
    payload,               \* mapping handed to WaterAnalysisResponse
    errors                 \* validation errors reported for it

vars == <<client, db, started, indexes, water_reports, parameter_standards,
          calculation_formulas, now, call, ret, logged,
          pc, stamped, applied, before, payload, errors>>

gatewayVars == <<client, db, started, indexes, water_reports, parameter_standards,
                 calculation_formulas, now, call, ret, logged>>
concVars == <<pc, stamped, applied, before>>
schemaVars == <<payload, errors>>

-----------------------------------------------------------------------------
(* Bounds of the model *)

MaxTime == 1        \* the clock reads 0..MaxTime
MaxDocs == 2        \* documents a collection holds at most
MaxLimit == 2       \* limit and skip range over 0..MaxLimit
NumCallers == 2     \* concurrent callers of update_water_report
MaxDefects == 1     \* top-level fields of a payload left out or ill-formed
MaxParams == 1      \* parameters listed in a chemical composition

-----------------------------------------------------------------------------
(* Values *)

None == <<>>
NoStr == "<absent>"
NoTime == 0 - 1

ReportIds == {"WQR-1", "WQR-2"}
Locations == {"Well A", "Well B"}
Times == 0 .. MaxTime

Min(a, b) == IF a <= b THEN a ELSE b

-----------------------------------------------------------------------------
(* Documents *)

Has(d, k) == k \in DOMAIN d

\* The value a query sees at field k; a missing field reads as null.
Field(d, k) == IF k \in DOMAIN d THEN <<d[k]>> ELSE <<>>

\* Equality filter {k: v, ...}
Matches(d, q) == \A k \in DOMAIN q : Field(d, k) = <<q[k]>>

\* faulty variant: the update replaces the document instead of setting fields in it
SetFieldsReplace(d, u) == u

\* {"$set": u} applied to document d
SetFields(d, u) ==
    [k \in DOMAIN d \cup DOMAIN u |-> IF k \in DOMAIN u THEN u[k] ELSE d[k]]

\* A report mapping; NoStr / NoTime leave the field out.
MkReport(r, loc, c, u) ==
    LET D == (IF r = NoStr THEN {} ELSE {"report_id"})
             \cup (IF loc = NoStr THEN {} ELSE {"sample_location"})
             \cup (IF c = NoTime THEN {} ELSE {"created_at"})
             \cup (IF u = NoTime THEN {} ELSE {"updated_at"})
    IN [k \in D |-> CASE k = "report_id" -> r
                      [] k = "sample_location" -> loc
                      [] k = "created_at" -> c
                      [] OTHER -> u]

\* Mappings a caller may pass to save_water_report: a report_id, optionally a
\* sample_location, optionally timestamps of the caller's own
ReportMappings ==
    { MkReport(r, loc, t, t) : r \in ReportIds, loc \in Locations \cup {NoStr},
                               t \in {NoTime, 0} }

\* Partial mappings a caller may pass to update_water_report
UpdateMappings ==
    { MkReport(r, loc, NoTime, NoTime) : r \in ReportIds \cup {NoStr},
                                         loc \in Locations \cup {NoStr} }
      \cup { MkReport(NoStr, NoStr, 0, NoTime), MkReport(NoStr, NoStr, NoTime, 0) }

-----------------------------------------------------------------------------
(* The document store *)

FirstMatch(coll, q) ==
    IF \E i \in 1..Len(coll) : Matches(coll[i], q)
    THEN CHOOSE i \in 1..Len(coll) :
            /\ Matches(coll[i], q)
            /\ \A j \in 1..(i-1) : ~Matches(coll[j], q)
    ELSE 0

\* collection.find_one(q)
StoreFindOne(coll, q) ==
    LET i == FirstMatch(coll, q) IN IF i = 0 THEN None ELSE coll[i]

\* No two documents of coll agree on key k (what a unique index on k requires)
UniqueOn(coll, k) ==
    \A i, j \in 1..Len(coll) : i # j => Field(coll[i], k) # Field(coll[j], k)

\* Would document d at position skip (0: a new document) collide on a unique key?
Collides(coll, d, uniq, skip) ==
    \E k \in uniq : \E j \in 1..Len(coll) :
        j # skip /\ Field(coll[j], k) = Field(d, k)

\* faulty variant: insert_one that no unique index guards
StoreInsertOneUnchecked(coll, doc, uniq) ==
    [raised |-> "", coll |-> Append(coll, doc)]

\* collection.insert_one(doc)
StoreInsertOne(coll, doc, uniq) ==
    IF Collides(coll, doc, uniq, 0)
    THEN [raised |-> "DuplicateKeyError", coll |-> coll]
    ELSE [raised |-> "", coll |-> Append(coll, doc)]

\* collection.update_one(q, {"$set": u}, upsert=upsert)
StoreUpdateOne(coll, q, u, uniq, upsert) ==
    LET i == FirstMatch(coll, q) IN
    IF i = 0
    THEN IF upsert
         THEN LET ins == StoreInsertOne(coll, SetFields(q, u), uniq) IN
              [raised |-> ins.raised, coll |-> ins.coll, matched_count |-> 0,
               modified_count |-> 0, upserted |-> ins.raised = ""]
         ELSE [raised |-> "", coll |-> coll, matched_count |-> 0,
               modified_count |-> 0, upserted |-> FALSE]
    ELSE LET new == SetFields(coll[i], u) IN
         IF Collides(coll, new, uniq, i)
         THEN [raised |-> "DuplicateKeyError", coll |-> coll, matched_count |-> 0,
               modified_count |-> 0, upserted |-> FALSE]
         ELSE [raised |-> "", coll |-> [coll EXCEPT ![i] = new], matched_count |-> 1,
               modified_count |-> IF new = coll[i] THEN 0 ELSE 1, upserted |-> FALSE]

Remove(coll, i) == SubSeq(coll, 1, i - 1) \o SubSeq(coll, i + 1, Len(coll))

\* faulty variant: delete_many in place of delete_one
StoreDeleteMany(coll, q) ==
    [coll |-> SelectSeq(coll, LAMBDA d : ~Matches(d, q)),
     deleted_count |-> Cardinality({ i \in 1 .. Len(coll) : Matches(coll[i], q) })]

\* collection.delete_one(q)
StoreDeleteOne(coll, q) ==
    LET i == FirstMatch(coll, q) IN
    IF i = 0 THEN [coll |-> coll, deleted_count |-> 0]
    ELSE [coll |-> Remove(coll, i), deleted_count |-> 1]


-----------------------------------------------------------------------------
(* Indexes: _create_indexes *)

Coll(name) ==
    CASE name = "water_reports" -> water_reports
      [] name = "parameter_standards" -> parameter_standards
      [] OTHER -> calculation_formulas

\* The create_index calls of _create_indexes, in order
IndexPlan ==
    << [coll |-> "water_reports", key |-> "report_id", unique |-> TRUE],
       [coll |-> "water_reports", key |-> "created_at", unique |-> FALSE],
       [coll |-> "parameter_standards", key |-> "parameter_name", unique |-> TRUE],
       [coll |-> "calculation_formulas", key |-> "formula_name", unique |-> TRUE] >>

\* Keys of collection name that carry a unique index
UniqueKeys(name) == { p.key : p \in { x \in indexes : x.coll = name /\ x.unique } }

\* create_index i fails when the store refuses it (failAt = i) or when a unique
\* index is to be built over documents that already collide on the key.
CreateIndexFails(i, idx, failAt) ==
    LET p == IndexPlan[i] IN
    \/ failAt = i
    \/ p.unique /\ p \notin idx /\ ~UniqueOn(Coll(p.coll), p.key)

RECURSIVE CreateFrom(_, _, _)
CreateFrom(i, idx, failAt) ==
    IF i > Len(IndexPlan) THEN [indexes |-> idx, failed |-> FALSE]
    ELSE IF CreateIndexFails(i, idx, failAt) THEN [indexes |-> idx, failed |-> TRUE]
    ELSE CreateFrom(i + 1, idx \cup {IndexPlan[i]}, failAt)

\* faulty variant: the except clause re-raises
CreateIndexesReraises(failed) == failed

\* The except clause of _create_indexes: the failure is logged, never re-raised.
CreateIndexesRaises(failed) == FALSE

-----------------------------------------------------------------------------
(* Outcomes *)

Ok(v) == [raised |-> "", value |-> v]
Raise(e) == [raised |-> e, value |-> None]

NoHandle == "None"

gatewayStore == <<indexes, water_reports, parameter_standards, calculation_formulas,
                  now>>

\* Any collection access while MongoDB.db is still None
NoDb(c) ==
    /\ call' = c
    /\ ret' = Raise("AttributeError")
    /\ logged' = {}
    /\ UNCHANGED <<client, db, started, gatewayStore>>

-----------------------------------------------------------------------------
(* connect *)

Connect(openOk, pingOk, failAt) ==
    LET made == CreateFrom(1, indexes, failAt)
        raises == CreateIndexesRaises(made.failed)
    IN
    /\ call' = [op |-> "connect", key |-> NoStr]
    /\ IF ~openOk
       THEN \* AsyncIOMotorClient(mongo_uri) raises: nothing assigned
            /\ ret' = Raise("ConfigurationError")
            /\ logged' = {"error: connection failed"}
            /\ UNCHANGED <<client, db, started, indexes>>
       ELSE /\ client' = "client"
            /\ db' = "db"
            /\ IF ~pingOk
               THEN /\ ret' = Raise("ServerSelectionTimeoutError")
                    /\ logged' = {"error: connection failed"}
                    /\ UNCHANGED <<started, indexes>>
               ELSE /\ indexes' = made.indexes
                    /\ started' = (started \/ ~raises)
                    /\ ret' = IF raises THEN Raise("OperationFailure") ELSE Ok(None)
                    /\ logged' = {"info: connected"}
                           \cup (IF made.failed THEN {"warning: index creation"}
                                 ELSE {"info: indexes created"})
                           \cup (IF raises THEN {"error: connection failed"} ELSE {})
    /\ UNCHANGED <<water_reports, parameter_standards, calculation_formulas, now>>

-----------------------------------------------------------------------------
(* water reports *)

ReportQuery(report_id) == MkReport(report_id, NoStr, NoTime, NoTime)

\* faulty variant: only created_at is stamped
StampNewCreatedOnly(report_data, t1, t2) ==
    [k \in DOMAIN report_data \cup {"created_at"} |->
        IF k = "created_at" THEN t1 ELSE report_data[k]]

\* report_data["created_at"] = utcnow(); report_data["updated_at"] = utcnow()
StampNew(report_data, t1, t2) ==
    [k \in DOMAIN report_data \cup {"created_at", "updated_at"} |->
        CASE k = "created_at" -> t1
          [] k = "updated_at" -> t2
          [] OTHER -> report_data[k]]

\* faulty variant: the update mapping is sent as given
StampUpdateMissing(update_data, t) == update_data

\* update_data["updated_at"] = utcnow()
StampUpdate(update_data, t) ==
    [k \in DOMAIN update_data \cup {"updated_at"} |->
        IF k = "updated_at" THEN t ELSE update_data[k]]

SaveWaterReport(report_data) ==
    LET c == [op |-> "save_water_report", key |-> report_data["report_id"]] IN
    /\ Len(water_reports) < MaxDocs
    /\ IF db = NoHandle THEN NoDb(c)
       ELSE \E t1 \in now .. Min(now + 1, MaxTime) :
            \E t2 \in t1 .. Min(t1 + 1, MaxTime) :
            LET doc == StampNew(report_data, t1, t2)
                res == StoreInsertOne(water_reports, doc,
                                      UniqueKeys("water_reports"))
            IN /\ call' = c
               /\ now' = t2
               /\ water_reports' = res.coll
               /\ IF res.raised = ""
                  THEN /\ ret' = Ok("inserted_id")
                       /\ logged' = {"info: report saved"}
                  ELSE /\ ret' = Raise(res.raised)
                       /\ logged' = {}
               /\ UNCHANGED <<client, db, started, indexes, parameter_standards,
                              calculation_formulas>>

GetWaterReport(report_id) ==
    LET c == [op |-> "get_water_report", key |-> report_id] IN
    IF db = NoHandle THEN NoDb(c)
    ELSE /\ call' = c
         /\ ret' = Ok(StoreFindOne(water_reports, ReportQuery(report_id)))
         /\ logged' = {}
         /\ UNCHANGED <<client, db, started, gatewayStore>>

\* May document a stand before document b when sorting by k descending?
\* A missing field sorts as null, below every value.
DescOrdered(a, b, k) == ~Has(b, k) \/ (Has(a, k) /\ a[k] >= b[k])

\* The orders .sort(k, -1) may produce (documents with equal keys in any order)
SortDesc(coll, k) ==
    LET n == Len(coll)
        perms == { f \in [1..n -> 1..n] : \A i, j \in 1..n : i # j => f[i] # f[j] }
        seqs == { [i \in 1..n |-> coll[f[i]]] : f \in perms }
    IN { s \in seqs : \A i, j \in 1..n : i < j => DescOrdered(s[i], s[j], k) }

\* cursor.skip(n)
CursorSkip(seq, n) == SubSeq(seq, n + 1, Len(seq))

\* cursor.limit(n): a limit of 0 is no limit
CursorLimit(seq, n) == IF n = 0 THEN seq ELSE SubSeq(seq, 1, Min(n, Len(seq)))

\* faulty variant: to_list(length=None)
ToListAll(seq, n) == seq

\* cursor.to_list(length=n): at most n documents
ToList(seq, n) == SubSeq(seq, 1, Min(n, Len(seq)))

GetAllReports(limit, skip) ==
    LET c == [op |-> "get_all_reports", key |-> NoStr] IN
    IF db = NoHandle THEN NoDb(c)
    ELSE \E sorted \in SortDesc(water_reports, "created_at") :
         /\ call' = c
         /\ ret' = Ok(ToList(CursorLimit(CursorSkip(sorted, skip), limit), limit))
         /\ logged' = {}
         /\ UNCHANGED <<client, db, started, gatewayStore>>

\* faulty variant: matched_count > 0
Matched(res) == res.matched_count > 0

\* modified_count > 0
Modified(res) == res.modified_count > 0

UpdateWaterReport(report_id, update_data) ==
    LET c == [op |-> "update_water_report", key |-> report_id] IN
    IF db = NoHandle THEN NoDb(c)
    ELSE \E t \in now .. Min(now + 1, MaxTime) :
         LET u == StampUpdate(update_data, t)
             res == StoreUpdateOne(water_reports, ReportQuery(report_id), u,
                                   UniqueKeys("water_reports"), FALSE)
         IN /\ call' = c
            /\ now' = t
            /\ water_reports' = res.coll
            /\ ret' = IF res.raised = "" THEN Ok(Modified(res)) ELSE Raise(res.raised)
            /\ logged' = {}
            /\ UNCHANGED <<client, db, started, indexes, parameter_standards,
                           calculation_formulas>>

\* deleted_count > 0
Deleted(res) == res.deleted_count > 0

DeleteWaterReport(report_id) ==
    LET c == [op |-> "delete_water_report", key |-> report_id] IN
    IF db = NoHandle THEN NoDb(c)
    ELSE LET res == StoreDeleteOne(water_reports, ReportQuery(report_id)) IN
         /\ call' = c
         /\ water_reports' = res.coll
         /\ ret' = Ok(Deleted(res))
         /\ logged' = {}
         /\ UNCHANGED <<client, db, started, indexes, parameter_standards,
                        calculation_formulas, now>>

-----------------------------------------------------------------------------
(* parameter standards and calculation formulas *)

ParameterNames == {"pH", "TDS"}
FormulaNames == {"LSI"}

\* A parameter standard: its name, thresholds, optionally a unit
MkStandard(name, thresholds, unit) ==
    [k \in {"parameter_name", "thresholds"} \cup (IF unit = NoStr THEN {} ELSE {"unit"}) |->
        CASE k = "parameter_name" -> name
          [] k = "thresholds" -> thresholds
          [] OTHER -> unit]

StandardMappings ==
    { MkStandard(n, th, un) : n \in ParameterNames, th \in {"6.5-8.5", "7.0-8.0"},
                              un \in {NoStr, "mg/L"} }

\* A calculation formula: its name, expression, optionally a unit
MkFormula(name, expr, unit) ==
    [k \in {"formula_name", "formula_expression"} \cup (IF unit = NoStr THEN {} ELSE {"unit"}) |->
        CASE k = "formula_name" -> name
          [] k = "formula_expression" -> expr
          [] OTHER -> unit]

FormulaMappings ==
    { MkFormula(n, e, un) : n \in FormulaNames, e \in {"pH - pHs", "2*pHs - pH"},
                            un \in {NoStr, "index"} }

StandardQuery(parameter_name) == [parameter_name |-> parameter_name]
FormulaQuery(formula_name) == [formula_name |-> formula_name]

GetParameterStandard(parameter_name) ==
    LET c == [op |-> "get_parameter_standard", key |-> parameter_name] IN
    IF db = NoHandle THEN NoDb(c)
    ELSE /\ call' = c
         /\ ret' = Ok(StoreFindOne(parameter_standards, StandardQuery(parameter_name)))
         /\ logged' = {}
         /\ UNCHANGED <<client, db, started, gatewayStore>>

SaveParameterStandard(standard_data) ==
    LET c == [op |-> "save_parameter_standard",
              key |-> standard_data["parameter_name"], data |-> standard_data] IN
    IF db = NoHandle THEN NoDb(c)
    ELSE LET res == StoreUpdateOne(parameter_standards,
                                   StandardQuery(standard_data["parameter_name"]),
                                   standard_data, UniqueKeys("parameter_standards"), TRUE)
         IN /\ call' = c
            /\ parameter_standards' = res.coll
            /\ ret' = IF res.raised = "" THEN Ok(standard_data["parameter_name"])
                      ELSE Raise(res.raised)
            /\ logged' = {}
            /\ UNCHANGED <<client, db, started, indexes, water_reports,
                           calculation_formulas, now>>

GetFormula(formula_name) ==
    LET c == [op |-> "get_formula", key |-> formula_name] IN
    IF db = NoHandle THEN NoDb(c)
    ELSE /\ call' = c
         /\ ret' = Ok(StoreFindOne(calculation_formulas, FormulaQuery(formula_name)))
         /\ logged' = {}
         /\ UNCHANGED <<client, db, started, gatewayStore>>

SaveFormula(formula_data) ==
    LET c == [op |-> "save_formula", key |-> formula_data["formula_name"],
              data |-> formula_data] IN
    IF db = NoHandle THEN NoDb(c)
    ELSE LET res == StoreUpdateOne(calculation_formulas,
                                   FormulaQuery(formula_data["formula_name"]),
                                   formula_data, UniqueKeys("calculation_formulas"), TRUE)
         IN /\ call' = c
            /\ calculation_formulas' = res.coll
            /\ ret' = IF res.raised = "" THEN Ok(formula_data["formula_name"])
                      ELSE Raise(res.raised)
            /\ logged' = {}
            /\ UNCHANGED <<client, db, started, indexes, water_reports,
                           parameter_standards, now>>

-----------------------------------------------------------------------------
(* Specification of the gateway's report operations *)

InitOther ==
    /\ pc = [p \in {} |-> ""]
    /\ stamped = <<>>
    /\ applied = <<>>
    /\ before = <<>>
    /\ payload = <<>>
    /\ errors = {}

InitGateway ==
    /\ client = NoHandle
    /\ db = NoHandle
    /\ started = FALSE
    /\ indexes = {}
    /\ water_reports = <<>>
    /\ parameter_standards = <<>>
    /\ calculation_formulas = <<>>
    /\ now = 0
    /\ call = [op |-> "init", key |-> NoStr]
    /\ ret = Ok(None)
    /\ logged = {}

Init == InitGateway /\ InitOther

\* Of the index failures the store may inject, those that decide whether
\* water_reports gets its unique index: none, or at the first create_index.
\* (SpecReference injects a failure at every create_index.)
Next ==
    \/ \E openOk, pingOk \in BOOLEAN : \E failAt \in {0, 1} :
          Connect(openOk, pingOk, failAt) /\ UNCHANGED <<concVars, schemaVars>>
    \/ \E m \in ReportMappings :
          SaveWaterReport(m) /\ UNCHANGED <<concVars, schemaVars>>
    \/ \E r \in ReportIds :
          GetWaterReport(r) /\ UNCHANGED <<concVars, schemaVars>>
    \/ \E r \in ReportIds : \E u \in UpdateMappings :
          UpdateWaterReport(r, u) /\ UNCHANGED <<concVars, schemaVars>>
    \/ \E r \in ReportIds :
          DeleteWaterReport(r) /\ UNCHANGED <<concVars, schemaVars>>
    \/ \E limit, skip \in 0 .. MaxLimit :
          GetAllReports(limit, skip) /\ UNCHANGED <<concVars, schemaVars>>

Spec == Init /\ [][Next]_vars

-----------------------------------------------------------------------------
(* Specification of connect and of the reference collections *)

NextReference ==
    \/ \E openOk, pingOk \in BOOLEAN : \E failAt \in 0 .. Len(IndexPlan) :
          Connect(openOk, pingOk, failAt) /\ UNCHANGED <<concVars, schemaVars>>
    \/ \E d \in StandardMappings :
          SaveParameterStandard(d) /\ UNCHANGED <<concVars, schemaVars>>
    \/ \E n \in ParameterNames :
          GetParameterStandard(n) /\ UNCHANGED <<concVars, schemaVars>>
    \/ \E d \in FormulaMappings :
          SaveFormula(d) /\ UNCHANGED <<concVars, schemaVars>>
    \/ \E n \in FormulaNames :
          GetFormula(n) /\ UNCHANGED <<concVars, schemaVars>>

SpecReference == Init /\ [][NextReference]_vars

-----------------------------------------------------------------------------
(* Concurrent update_water_report calls on one report_id *)

Callers == 1 .. NumCallers

\* The report_id every caller addresses
Target == "WQR-1"

\* Partial mappings the callers pass
ConcurrentMappings ==
    { [sample_location |-> "Well A"],
      [sample_date |-> "2024-01-01"],
      [sample_location |-> "Well B", sample_date |-> "2024-02-02"],
      [report_id |-> "WQR-2"] }

\* Up to the await: the collection is looked up and the mapping stamped.
Stamp(p, update_data) ==
    /\ pc[p] = "start"
    /\ \E t \in now .. Min(now + 1, MaxTime) :
          /\ stamped' = [stamped EXCEPT ![p] = StampUpdate(update_data, t)]
          /\ now' = t
    /\ pc' = [pc EXCEPT ![p] = "stamped"]
    /\ UNCHANGED <<client, db, started, indexes, water_reports, parameter_standards,
                   calculation_formulas, call, ret, logged, applied, before>>

\* The awaited update_one: one round trip, applied by the store in one step.
Apply(p) ==
    /\ pc[p] = "stamped"
    /\ LET res == StoreUpdateOne(water_reports, ReportQuery(Target), stamped[p],
                                 UniqueKeys("water_reports"), FALSE)
       IN /\ water_reports' = res.coll
          /\ applied' = Append(applied,
                 [caller |-> p,
                  took |-> res.raised = "" /\ res.matched_count > 0,
                  result |-> IF res.raised = "" THEN Ok(Modified(res))
                             ELSE Raise(res.raised)])
    /\ pc' = [pc EXCEPT ![p] = "done"]
    /\ UNCHANGED <<client, db, started, indexes, parameter_standards,
                   calculation_formulas, now, call, ret, logged, stamped, before>>

\* A connected gateway holding the target report, alone or beside another one
InitConcurrent ==
    /\ client = "client"
    /\ db = "db"
    /\ started = TRUE
    /\ indexes = { IndexPlan[i] : i \in 1 .. Len(IndexPlan) }
    /\ \E other \in BOOLEAN :
          water_reports = <<MkReport(Target, "Well A", 0, 0)>>
                \o (IF other THEN <<MkReport("WQR-2", NoStr, 0, 0)>> ELSE <<>>)
    /\ before = water_reports
    /\ parameter_standards = <<>>
    /\ calculation_formulas = <<>>
    /\ now = 0
    /\ call = [op |-> "init", key |-> NoStr]
    /\ ret = Ok(None)
    /\ logged = {}
    /\ pc = [p \in Callers |-> "start"]
    /\ stamped = [p \in Callers |-> None]
    /\ applied = <<>>
    /\ payload = <<>>
    /\ errors = {}

NextConcurrent ==
    \/ \E p \in Callers : \E u \in ConcurrentMappings :
          Stamp(p, u) /\ UNCHANGED schemaVars
    \/ \E p \in Callers :
          Apply(p) /\ UNCHANGED schemaVars

SpecConcurrent == InitConcurrent /\ [][NextConcurrent]_vars

-----------------------------------------------------------------------------
(* WaterAnalysisResponse validation *)

\* StatusEnum
StatusEnum == {"optimal", "good", "warning", "critical", "unknown"}

\* faulty variant: status: str
StatusAnyString(v) == TRUE

\* status: StatusEnum
StatusAccepted(v) == v \in StatusEnum

\* The fields of CompositionParameter: name and whether a value is required
CompositionParameterFields ==
    { [name |-> "parameter_name", required |-> TRUE],
      [name |-> "value", required |-> TRUE],
      [name |-> "unit", required |-> TRUE],
      [name |-> "status", required |-> TRUE],
      [name |-> "threshold", required |-> FALSE] }

\* The fields of ChemicalComposition
ChemicalCompositionFields ==
    { [name |-> "parameters", required |-> TRUE],
      [name |-> "summary", required |-> TRUE] }

\* The fields of WaterAnalysisResponse
WaterAnalysisResponseFields ==
    { [name |-> "report_id", required |-> TRUE],
      [name |-> "extracted_parameters", required |-> TRUE],
      [name |-> "parameter_graph", required |-> TRUE],
      [name |-> "chemical_status", required |-> TRUE],
      [name |-> "total_score", required |-> TRUE],
      [name |-> "quality_report", required |-> TRUE],
      [name |-> "chemical_composition", required |-> TRUE],
      [name |-> "biological_indicators", required |-> TRUE],
      [name |-> "compliance_checklist", required |-> TRUE],
      [name |-> "contamination_risk", required |-> TRUE],
      [name |-> "sample_location", required |-> FALSE],
      [name |-> "sample_date", required |-> FALSE],
      [name |-> "created_at", required |-> TRUE] }

RequiredOf(fields) == { f.name : f \in { x \in fields : x.required } }
NamesOf(fields) == { f.name : f \in fields }

\* A value of any field but chemical_composition is given by whether the
\* field's own type accepts it.
WellFormed == "well-formed"
IllFormed == "ill-formed"

ErrorAt(field, index, sub) == [field |-> field, index |-> index, sub |-> sub]

\* Errors of one CompositionParameter, the i-th of the list
ParameterErrors(prm, i) ==
    { ErrorAt("chemical_composition", i, n) :
        n \in { n \in RequiredOf(CompositionParameterFields) : ~Has(prm, n) } }
    \cup { ErrorAt("chemical_composition", i, n) :
        n \in { n \in NamesOf(CompositionParameterFields) \ {"status"} :
                    Has(prm, n) /\ prm[n] = IllFormed } }
    \cup (IF Has(prm, "status") /\ ~StatusAccepted(prm["status"])
          THEN {ErrorAt("chemical_composition", i, "status")} ELSE {})

\* Errors of a ChemicalComposition
CompositionErrors(cc) ==
    { ErrorAt("chemical_composition", 0, n) :
        n \in { n \in RequiredOf(ChemicalCompositionFields) : ~Has(cc, n) } }
    \cup (IF Has(cc, "summary") /\ cc["summary"] = IllFormed
          THEN {ErrorAt("chemical_composition", 0, "summary")} ELSE {})
    \cup (IF Has(cc, "parameters")
          THEN UNION { ParameterErrors(cc["parameters"][i], i) :
                          i \in 1 .. Len(cc["parameters"]) }
          ELSE {})

\* The errors WaterAnalysisResponse(**data) reports: a required field that is
\* missing, a given field its type rejects; fields not declared are ignored.
ValidationErrors(data) ==
    { ErrorAt(n, 0, "") :
        n \in { n \in RequiredOf(WaterAnalysisResponseFields) : ~Has(data, n) } }
    \cup { ErrorAt(n, 0, "") :
        n \in { n \in NamesOf(WaterAnalysisResponseFields) \ {"chemical_composition"} :
                    Has(data, n) /\ data[n] = IllFormed } }
    \cup (IF Has(data, "chemical_composition")
          THEN CompositionErrors(data["chemical_composition"]) ELSE {})

\* Inputs: composition parameters
StatusInputs == StatusEnum \cup {"excellent", "Optimal"}

MkParameter(status, omitted) ==
    [k \in ({"parameter_name", "value", "unit"} \ {omitted})
           \cup (IF status = NoStr THEN {} ELSE {"status"}) |->
        IF k = "status" THEN status ELSE WellFormed]

ParameterInputs ==
    { MkParameter(st, om) : st \in StatusInputs \cup {NoStr},
                            om \in {NoStr, "unit"} }

ParameterLists ==
    UNION { [1 .. n -> ParameterInputs] : n \in 0 .. MaxParams }

CompositionInputs ==
    { [parameters |-> ps, summary |-> WellFormed] : ps \in ParameterLists }
    \cup { [parameters |-> <<>>] }

\* Inputs: a complete payload in which the fields of `defects` are left out
\* (those of `out`) or ill-formed (the others), with chemical composition cc
\* (None: left out), possibly with fields the model does not declare
MkPayload(defects, out, cc, extra) ==
    LET others == NamesOf(WaterAnalysisResponseFields) \ {"chemical_composition"} IN
    [k \in (others \ out) \cup (IF cc = None THEN {} ELSE {"chemical_composition"})
           \cup extra |->
        IF k = "chemical_composition" THEN cc
        ELSE IF k \in defects THEN IllFormed ELSE WellFormed]

DefectSets ==
    { x \in SUBSET (NamesOf(WaterAnalysisResponseFields) \ {"chemical_composition"}) :
        Cardinality(x) <= MaxDefects }

\* No validation has run yet
Pending == {ErrorAt("<pending>", 0, "")}

\* WaterAnalysisResponse(**payload)
Validate ==
    /\ errors = Pending
    /\ errors' = ValidationErrors(payload)
    /\ UNCHANGED <<payload, gatewayVars, concVars>>

InitSchema ==
    /\ InitGateway
    /\ pc = [p \in {} |-> ""]
    /\ stamped = <<>>
    /\ applied = <<>>
    /\ before = <<>>
    /\ \E defects \in DefectSets : \E out \in SUBSET defects :
       \E cc \in CompositionInputs \cup {None} : \E extra \in {{}, {"notes"}} :
          payload = MkPayload(defects, out, cc, extra)
    /\ errors = Pending

NextSchema == Validate

SpecSchema == InitSchema /\ [][NextSchema]_vars

-----------------------------------------------------------------------------
(* Properties of the report operations *)

ReportIndexed == "report_id" \in UniqueKeys("water_reports")

Returned(r) == r.raised = ""

Stored(coll, report_id) == FirstMatch(coll, ReportQuery(report_id)) # 0

\* Document d carries every pair of mapping m whose key is in keys
Carries(d, m, keys) == \A k \in keys : Has(d, k) /\ d[k] = m[k]

Stamped(d) == d # None /\ Has(d, "created_at") /\ Has(d, "updated_at")

SaveSteps(P(_)) ==
    call'.op = "save_water_report" =>
        \A m \in ReportMappings : SaveWaterReport(m) => P(m)

UpdateSteps(P(_, _)) ==
    call'.op = "update_water_report" =>
        \A r \in ReportIds : \A u \in UpdateMappings : UpdateWaterReport(r, u) => P(r, u)

DeleteSteps(P(_)) ==
    call'.op = "delete_water_report" =>
        \A r \in ReportIds : DeleteWaterReport(r) => P(r)

\* The step is an update or a delete addressed to report_id r
Addresses(r) ==
    /\ call'.op \in {"update_water_report", "delete_water_report"}
    /\ call'.key = r

\* The step is an update that moves some other report onto report_id r
RenamesTo(r) ==
    /\ call'.op = "update_water_report"
    /\ \E u \in UpdateMappings :
          /\ Has(u, "report_id") /\ u["report_id"] = r
          /\ UpdateWaterReport(call'.key, u)

\* What get_water_report(r) would return stays what it is
Kept(r) ==
    StoreFindOne(water_reports', ReportQuery(r)) = StoreFindOne(water_reports, ReportQuery(r))

C1_SavedAll(m) ==
    (~Stored(water_reports, m["report_id"]) /\ Returned(ret')) =>
        LET d == StoreFindOne(water_reports', ReportQuery(m["report_id"])) IN
        Stamped(d) /\ Carries(d, m, DOMAIN m)

C1_SavedSupplied(m) ==
    (~Stored(water_reports, m["report_id"]) /\ Returned(ret')) =>
        LET d == StoreFindOne(water_reports', ReportQuery(m["report_id"])) IN
        Stamped(d) /\ Carries(d, m, DOMAIN m \ {"created_at", "updated_at"})

\* C1 as stated: a saved report is retrieved with every pair of the mapping
\* supplied and with both timestamps, until that report is updated or deleted.
C1_RoundTripAllPairs ==
    [][ /\ SaveSteps(C1_SavedAll)
        /\ \A r \in ReportIds :
              (Stored(water_reports, r) /\ ~Addresses(r)) => Kept(r) ]_vars

\* C1 amended: a saved report is retrieved with every supplied pair other than
\* created_at and updated_at, which are the server's, and with both timestamps;
\* this lasts until an update or delete addressed to r, or an update that gives
\* another report the report_id r.
C1_RoundTrip ==
    [][ /\ SaveSteps(C1_SavedSupplied)
        /\ \A r \in ReportIds :
              (Stored(water_reports, r) /\ ~Addresses(r) /\ ~RenamesTo(r)) => Kept(r) ]_vars

C1_Witness ==
    /\ call.op = "save_water_report" /\ Returned(ret)
    /\ LET d == StoreFindOne(water_reports, ReportQuery(call.key)) IN
       d # None /\ Has(d, "sample_location") /\ d["created_at"] > 0

C2_DuplicateRefused(m) ==
    Stored(water_reports, m["report_id"]) =>
        /\ ret'.raised = "DuplicateKeyError"
        /\ water_reports' = water_reports

\* C2 as stated: once connect() has returned normally, a save under a stored
\* report_id fails and changes nothing, and no two reports share a report_id.
C2_UniqueAfterConnect ==
    [][ /\ started => SaveSteps(C2_DuplicateRefused)
        /\ started' => UniqueOn(water_reports', "report_id") ]_vars

\* C2 amended: the same, in every state in which the unique index on
\* report_id exists.
C2_UniqueWhileIndexed ==
    [][ /\ ReportIndexed => SaveSteps(C2_DuplicateRefused)
        /\ ReportIndexed' => UniqueOn(water_reports', "report_id") ]_vars

C2_Witness ==
    /\ ReportIndexed
    /\ call.op = "save_water_report" /\ ret.raised = "DuplicateKeyError"
    /\ Stored(water_reports, call.key)

\* The documents other than the first one matching r are untouched, and in
\* that one only the fields named in u, and updated_at, may differ.
C3_Frame(r, u) ==
    LET i == FirstMatch(water_reports, ReportQuery(r)) IN
    i # 0 =>
        /\ Len(water_reports') = Len(water_reports)
        /\ \A j \in 1 .. Len(water_reports) :
              j # i => water_reports'[j] = water_reports[j]
        /\ \A k \in {"report_id", "sample_location", "created_at", "updated_at"}
                    \ (DOMAIN u \cup {"updated_at"}) :
              Field(water_reports'[i], k) = Field(water_reports[i], k)

C3_Restamped(r) ==
    LET i == FirstMatch(water_reports, ReportQuery(r)) IN
    Field(water_reports'[i], "updated_at") = <<now'>>

C3_Always(r, u) ==
    Stored(water_reports, r) => C3_Frame(r, u) /\ C3_Restamped(r)

C3_WhenReturned(r, u) ==
    Stored(water_reports, r) =>
        C3_Frame(r, u) /\ (Returned(ret') => C3_Restamped(r))

\* C3 as stated: an update of an existing report changes only the fields it
\* names and updated_at, in that document only, and sets updated_at on every call.
C3_UpdateEveryCall == [][ UpdateSteps(C3_Always) ]_vars

\* C3 amended: the same, with updated_at set on every call that returns.
C3_Update == [][ UpdateSteps(C3_WhenReturned) ]_vars

C3_Witness ==
    /\ call.op = "update_water_report" /\ Returned(ret) /\ ret.value
    /\ Len(water_reports) = 2
    /\ \E i \in 1 .. 2 :
          /\ Matches(water_reports[i], ReportQuery(call.key))
          /\ water_reports[i]["updated_at"] > water_reports[i]["created_at"]
          /\ Has(water_reports[i], "sample_location")

C4_TrueIffChanged(r, u) ==
    /\ (Returned(ret') /\ ret'.value) <=> (water_reports' # water_reports)
    /\ ~Stored(water_reports, r) =>
          ret' = Ok(FALSE) /\ water_reports' = water_reports

\* C4: update_water_report returns true exactly when a stored document
\* changed; for an unknown report_id it returns false, raises nothing and
\* stores nothing.
C4_UpdateResult == [][ db # NoHandle => UpdateSteps(C4_TrueIffChanged) ]_vars

\* a matched report that the update left as it was
C4_Witness ==
    /\ call.op = "update_water_report" /\ Returned(ret) /\ ~ret.value
    /\ Stored(water_reports, call.key)

C5_Page(limit, skip) ==
    LET got == ret'.value IN
    /\ Returned(ret')
    /\ Len(got) <= limit
    /\ \A i, j \in 1 .. Len(got) : i < j => DescOrdered(got[i], got[j], "created_at")
    /\ \E s \in SortDesc(water_reports, "created_at") :
          got = SubSeq(s, skip + 1, Min(skip + limit, Len(s)))

\* C5: get_all_reports(limit, skip) returns at most limit documents, newest
\* created_at first: positions skip .. skip+limit-1 of the collection so ordered.
C5_Listing ==
    [][ (call'.op = "get_all_reports" /\ db # NoHandle) =>
          \A limit, skip \in 0 .. MaxLimit : GetAllReports(limit, skip) => C5_Page(limit, skip) ]_vars

C5_Witness ==
    /\ call.op = "get_all_reports" /\ Returned(ret)
    /\ Len(water_reports) = 2 /\ Len(ret.value) = 1
    /\ ret.value[1] = water_reports[2]
    /\ water_reports[2]["created_at"] > water_reports[1]["created_at"]

C6_Removed(r) ==
    LET i == FirstMatch(water_reports, ReportQuery(r)) IN
    /\ Returned(ret')
    /\ ret'.value <=> i # 0
    /\ water_reports' = IF i = 0 THEN water_reports ELSE Remove(water_reports, i)

C6_Again(r) ==
    (call.op = "delete_water_report" /\ call.key = r /\ Returned(ret) /\ ret.value)
        => ~ret'.value

C6_Gone(r) == StoreFindOne(water_reports', ReportQuery(r)) = None

\* C6 as stated: delete returns true exactly when it removed a document with
\* that report_id, and removes nothing else; twice in a row it returns true and
\* then false, and the report cannot be retrieved afterwards.
C6_DeleteTwiceAlways ==
    [][ db # NoHandle => DeleteSteps(LAMBDA r : C6_Removed(r) /\ C6_Again(r) /\ C6_Gone(r)) ]_vars

\* C6 amended: the second half holds while the unique index on report_id exists.
C6_Delete ==
    [][ db # NoHandle =>
          DeleteSteps(LAMBDA r : C6_Removed(r) /\ (ReportIndexed => C6_Again(r) /\ C6_Gone(r))) ]_vars

C6_Witness ==
    /\ ReportIndexed
    /\ call.op = "delete_water_report" /\ Returned(ret) /\ ret.value
    /\ Len(water_reports) = 1

\* C8: connect() raises exactly when opening the client or the ping fails; a
\* failed index creation is logged as a warning, connect() returns normally
\* and the database handle is set.
C8_ConnectFailure ==
    [][ call'.op = "connect" =>
          \A openOk, pingOk \in BOOLEAN : \A failAt \in 0 .. Len(IndexPlan) :
             Connect(openOk, pingOk, failAt) =>
                /\ ~Returned(ret') <=> (~openOk \/ ~pingOk)
                /\ (openOk /\ pingOk /\ CreateFrom(1, indexes, failAt).failed) =>
                      /\ Returned(ret')
                      /\ "warning: index creation" \in logged'
                      /\ db' # NoHandle ]_vars

C8_Witness ==
    /\ call.op = "connect" /\ Returned(ret)
    /\ "warning: index creation" \in logged
    /\ ~ReportIndexed

-----------------------------------------------------------------------------
(* Properties of the reference collections *)

Count(coll, q) == Cardinality({ i \in 1 .. Len(coll) : Matches(coll[i], q) })

\* The stored document is the payload and nothing else
C7_Replaced(coll, coll2, q, data) ==
    /\ Returned(ret')
    /\ Count(coll2, q) = 1
    /\ StoreFindOne(coll2, q) = data

\* The stored document has the payload's value in every field of the payload,
\* and keeps every other field it had
C7_Merged(coll, coll2, q, data) ==
    LET old == StoreFindOne(coll, q)
        new == StoreFindOne(coll2, q)
    IN /\ Returned(ret')
       /\ Count(coll2, q) = 1
       /\ DOMAIN new = DOMAIN old \cup DOMAIN data
       /\ \A k \in DOMAIN data : new[k] = data[k]
       /\ \A k \in DOMAIN old \ DOMAIN data : new[k] = old[k]

ReferenceSaves(P(_, _, _, _)) ==
    /\ (call'.op = "save_parameter_standard" /\ db # NoHandle) =>
          \A d \in StandardMappings : SaveParameterStandard(d) =>
              P(parameter_standards, parameter_standards',
                StandardQuery(d["parameter_name"]), d)
    /\ (call'.op = "save_formula" /\ db # NoHandle) =>
          \A d \in FormulaMappings : SaveFormula(d) =>
              P(calculation_formulas, calculation_formulas',
                FormulaQuery(d["formula_name"]), d)

-----------------------------------------------------------------------------
(* Properties of concurrent updates *)

AllDone == \A p \in Callers : pc[p] = "done"

ReportFields == {"report_id", "sample_location", "sample_date", "created_at", "updated_at"}

Last(S) == CHOOSE i \in S : \A j \in S : j <= i

\* Every field of the target document holds the value of the last applied call
\* among the calls in `counted` that wrote it, or its old value if none did.
LastWriteWins(counted) ==
    \A k \in ReportFields :
        LET W == { i \in counted : Has(stamped[applied[i].caller], k) } IN
        IF W = {} THEN Field(water_reports[1], k) = Field(before[1], k)
        ELSE Field(water_reports[1], k) = <<stamped[applied[Last(W)].caller][k]>>

\* C9 as stated: when the concurrent updates of one report_id are all done,
\* each field holds the value of the last applied call that wrote it, a field
\* written by one call holds that call's value, and no update is lost.
C9_LastWriteWinsAll ==
    AllDone => LastWriteWins(1 .. Len(applied))

\* C9 amended: the same, over the calls whose update_one matched the report
\* and did not raise.
C9_LastWriteWins ==
    AllDone => LastWriteWins({ i \in 1 .. Len(applied) : applied[i].took })

\* two calls wrote sample_location, the first of them also sample_date
C9_Witness ==
    /\ AllDone
    /\ \A i \in 1 .. Len(applied) : applied[i].took
    /\ Has(stamped[applied[1].caller], "sample_date")
    /\ Has(stamped[applied[1].caller], "sample_location")
    /\ ~Has(stamped[applied[2].caller], "sample_date")
    /\ Has(stamped[applied[2].caller], "sample_location")
    /\ stamped[applied[2].caller]["sample_location"] = "Well A"
    /\ stamped[applied[2].caller]["updated_at"] < stamped[applied[1].caller]["updated_at"]

-----------------------------------------------------------------------------
(* Properties of validation *)

\* The nine sub-sections, the report identity and the creation timestamp
RequiredSections ==
    {"extracted_parameters", "parameter_graph", "chemical_status", "total_score",
     "quality_report", "chemical_composition", "biological_indicators",
     "compliance_checklist", "contamination_risk"}
RequiredIdentity == {"report_id", "created_at"}

PresentAndValid(data) ==
    /\ \A n \in RequiredSections \cup RequiredIdentity : Has(data, n)
    /\ \A n \in DOMAIN data \ {"chemical_composition", "notes"} : data[n] = WellFormed
    /\ LET cc == data["chemical_composition"] IN
       /\ Has(cc, "parameters") /\ Has(cc, "summary") /\ cc["summary"] = WellFormed
       /\ \A i \in 1 .. Len(cc["parameters"]) :
             LET prm == cc["parameters"][i] IN
             /\ {"parameter_name", "value", "unit", "status"} \subseteq DOMAIN prm
             /\ \A n \in DOMAIN prm \ {"status"} : prm[n] = WellFormed
             /\ prm["status"] \in {"optimal", "good", "warning", "critical", "unknown"}

Validated == errors # Pending

\* C10: a WaterAnalysisResponse is valid exactly when every required field is
\* present and every sub-section is valid; a missing required sub-section is
\* reported under its name; a composition parameter whose status is not one of
\* optimal, good, warning, critical, unknown makes the response invalid.
C10_Validation ==
    Validated =>
        /\ errors = {} <=> PresentAndValid(payload)
        /\ \A n \in RequiredSections :
              ~Has(payload, n) => ErrorAt(n, 0, "") \in errors
        /\ (/\ Has(payload, "chemical_composition")
            /\ Has(payload["chemical_composition"], "parameters")
            /\ \E i \in 1 .. Len(payload["chemical_composition"]["parameters"]) :
                  LET prm == payload["chemical_composition"]["parameters"][i] IN
                  /\ Has(prm, "status")
                  /\ prm["status"] \notin {"optimal", "good", "warning", "critical", "unknown"})
           => errors # {}

\* every required field populated, one parameter with a status outside the enumeration
C10_Witness ==
    /\ Validated
    /\ \A n \in RequiredSections \cup RequiredIdentity : Has(payload, n)
    /\ \A n \in DOMAIN payload \ {"chemical_composition"} : payload[n] = WellFormed
    /\ Len(payload["chemical_composition"]["parameters"]) = 1
    /\ Has(payload["chemical_composition"]["parameters"][1], "status")
    /\ payload["chemical_composition"]["parameters"][1]["status"] = "excellent"
    /\ errors = {ErrorAt("chemical_composition", 1, "status")}

=============================================================================
